---------------------------- MODULE Spec2Model ----------------------------
(***************************************************************************)
(* Model of server.py: the Flask service that forwards a file list and a   *)
(* user instruction to the Gemini text-generation API and parses the reply *)
(* into a move plan.                                                       *)
(*                                                                         *)
(* Python values are tagged tuples:                                        *)
(*   <<"null">>            None / JSON null                                *)
(*   <<"bool", b>>         True / False                                    *)
(*   <<"num", n>>          an integer                                      *)
(*   <<"str", cs>>         a str received or parsed as JSON, cs its        *)
(*                         sequence of one-character strings               *)
(*   <<"msg", m>>          a str built by the program or by a raised       *)
(*   <<"msg", m, pos>>     exception (m a fixed text, pos a char offset)   *)
(*   <<"list", seq>>       a list                                          *)
(*   <<"dict", pairs>>     a dict, pairs a sequence of <<key, value>>      *)
(* A text is a sequence of one-character strings.                          *)
(***************************************************************************)
EXTENDS Integers, Sequences, FiniteSets, TLC

\* ------------------------------------------------------------------ bounds
MaxLen == 4

\* ----------------------------------------------------------- Python values
PyNone == <<"null">>
PyBool(b) == <<"bool", b>>
PyNum(n) == <<"num", n>>
PyStr(cs) == <<"str", cs>>
PyList(s) == <<"list", s>>
PyDict(pairs) == <<"dict", pairs>>

Tag(v) == v[1]

ErrorChars == <<"e", "r", "r", "o", "r">>
PathChars == <<"p", "a", "t", "h">>
NameChars == <<"n", "a", "m", "e">>

\* bool(v)
Truthy(v) ==
    CASE Tag(v) = "null" -> FALSE
      [] Tag(v) = "bool" -> v[2]
      [] Tag(v) = "num" -> v[2] # 0
      [] Tag(v) \in {"str", "list", "dict"} -> Len(v[2]) > 0
      [] OTHER -> TRUE

\* d.get(key, default) on a dict
DictHas(d, key) == \E i \in 1..Len(d[2]) : d[2][i][1] = key
DictGet(d, key, default) ==
    IF DictHas(d, key)
    THEN d[2][CHOOSE i \in 1..Len(d[2]) : d[2][i][1] = key][2]
    ELSE default

\* cs occurs as a contiguous slice of ds (str.__contains__)
IsSubstring(cs, ds) ==
    \E i \in 0..(Len(ds) - Len(cs)) :
        \A j \in 1..Len(cs) : ds[i + j] = cs[j]


\* ------------------------------------------------------- json.loads (text)
\* Texts hold no backslash, control character, fraction or exponent, so the
\* escape, control-character and float branches of the decoder are not
\* modelled.  Indices are Python's: 0-based, At(s, i) is s[i:i+1].
Whitespace == {" ", "\n", "\t", "\r"}
Digits == {"0", "1", "2", "3", "4", "5", "6", "7", "8", "9"}

At(s, i) == IF i >= 0 /\ i < Len(s) THEN s[i + 1] ELSE ""

\* s[a:b]
Slice(s, a, b) == IF b > a THEN SubSeq(s, a + 1, b) ELSE <<>>

\* WHITESPACE.match(s, i).end()
SkipWs(s, i) ==
    CHOOSE j \in i..Len(s) :
        /\ \A k \in i..(j - 1) : At(s, k) \in Whitespace
        /\ At(s, j) \notin Whitespace

DigitVal(c) ==
    CASE c = "0" -> 0 [] c = "1" -> 1 [] c = "2" -> 2 [] c = "3" -> 3
      [] c = "4" -> 4 [] c = "5" -> 5 [] c = "6" -> 6 [] c = "7" -> 7
      [] c = "8" -> 8 [] c = "9" -> 9

\* end of the run of digits starting at i
DigitsEnd(s, i) ==
    CHOOSE j \in i..Len(s) :
        /\ \A k \in i..(j - 1) : At(s, k) \in Digits
        /\ At(s, j) \notin Digits

RECURSIVE IntOf(_)
IntOf(ds) ==
    IF ds = <<>> THEN 0
    ELSE 10 * IntOf(SubSeq(ds, 1, Len(ds) - 1)) + DigitVal(ds[Len(ds)])

\* NUMBER_RE.match(s, i), integer part: -?(0|[1-9][0-9]*)
MatchInt(s, i, b, e) ==
    IF At(s, b) \notin Digits THEN <<"stop", i>>
    ELSE <<"ok", PyNum((IF b > i THEN -1 ELSE 1) * IntOf(Slice(s, b, e))), e>>
MatchDigits(s, i, b) ==
    MatchInt(s, i, b, IF At(s, b) = "0" THEN b + 1 ELSE DigitsEnd(s, b))
MatchNumber(s, i) == MatchDigits(s, i, IF At(s, i) = "-" THEN i + 1 ELSE i)

\* py_scanstring(s, end): end is the index after the opening quote
StringChunk(s, end, j) == <<"ok", Slice(s, end, j), j + 1>>
ScanString(s, end) ==
    IF \E j \in end..(Len(s) - 1) : At(s, j) = "\""
    THEN StringChunk(s, end, CHOOSE k \in end..(Len(s) - 1) :
                                 /\ At(s, k) = "\""
                                 /\ \A m \in end..(k - 1) : At(s, m) # "\"")
    ELSE <<"err", "Unterminated string starting at", end - 1>>

\* dict(pairs): a later pair replaces the value of an equal earlier key
DictSet(acc, p) ==
    IF \E i \in 1..Len(acc) : acc[i][1] = p[1]
    THEN [i \in 1..Len(acc) |-> IF acc[i][1] = p[1] THEN p ELSE acc[i]]
    ELSE Append(acc, p)
RECURSIVE DictFromPairs(_, _)
DictFromPairs(pairs, acc) ==
    IF pairs = <<>> THEN acc
    ELSE DictFromPairs(Tail(pairs), DictSet(acc, Head(pairs)))

RECURSIVE ScanOnce(_, _), ArrayItems(_, _, _), ObjectItems(_, _, _)

\* JSONArray after an element: e1 is the index of the next character that
\* is no whitespace
ArrayDelimiter(s, e1, values) ==
    IF At(s, e1) = "]" THEN <<"ok", PyList(values), e1 + 1>>
    ELSE IF At(s, e1) # "," THEN <<"err", "Expecting ',' delimiter", e1>>
    ELSE ArrayItems(s, SkipWs(s, e1 + 1), values)

\* JSONArray: r is what scan_once gave for the element
ArrayValue(s, acc, r) ==
    CASE r[1] = "stop" -> <<"err", "Expecting value", r[2]>>
      [] r[1] = "err" -> r
      [] OTHER -> ArrayDelimiter(s, SkipWs(s, r[3]), Append(acc, r[2]))

\* JSONArray: the loop over the elements; end is the index of the next value
ArrayItems(s, end, acc) == ArrayValue(s, acc, ScanOnce(s, end))

\* JSONObject after a comma: e2 is the index where the next key must open
ObjectNextKey(s, e2, pairs) ==
    IF At(s, e2) # "\""
    THEN <<"err", "Expecting property name enclosed in double quotes", e2>>
    ELSE ObjectItems(s, e2 + 1, pairs)

\* JSONObject after a value
ObjectDelimiter(s, e1, pairs) ==
    IF At(s, e1) = "}" THEN <<"ok", PyDict(DictFromPairs(pairs, <<>>)), e1 + 1>>
    ELSE IF At(s, e1) # "," THEN <<"err", "Expecting ',' delimiter", e1>>
    ELSE ObjectNextKey(s, SkipWs(s, e1 + 1), pairs)

\* JSONObject: r is what scan_once gave for the value of key
ObjectValue(s, key, acc, r) ==
    CASE r[1] = "stop" -> <<"err", "Expecting value", r[2]>>
      [] r[1] = "err" -> r
      [] OTHER -> ObjectDelimiter(s, SkipWs(s, r[3]), Append(acc, <<key, r[2]>>))

\* JSONObject after a key: c is the index where the colon must be
ObjectColon(s, key, c, acc) ==
    IF At(s, c) # ":" THEN <<"err", "Expecting ':' delimiter", c>>
    ELSE ObjectValue(s, key, acc, ScanOnce(s, SkipWs(s, c + 1)))

\* JSONObject: k is what scanstring gave for the key
ObjectKey(s, acc, k) ==
    IF k[1] = "err" THEN k ELSE ObjectColon(s, k[2], SkipWs(s, k[3]), acc)

\* JSONObject: the loop over the pairs; end is the index after the key's
\* opening quote
ObjectItems(s, end, acc) == ObjectKey(s, acc, ScanString(s, end))

\* JSONObject, JSONArray: e is the index of the first character after the
\* opening bracket that is no whitespace
ObjectStart(s, e) ==
    IF At(s, e) = "}" THEN <<"ok", PyDict(<<>>), e + 1>>
    ELSE ObjectNextKey(s, e, <<>>)
ArrayStart(s, e) ==
    IF At(s, e) = "]" THEN <<"ok", PyList(<<>>), e + 1>>
    ELSE ArrayItems(s, e, <<>>)

StringValue(r) == IF r[1] = "ok" THEN <<"ok", PyStr(r[2]), r[3]>> ELSE r

\* scanner.py_make_scanner._scan_once
ScanOnce(s, idx) ==
    CASE idx >= Len(s) -> <<"stop", idx>>
      [] At(s, idx) = "\"" -> StringValue(ScanString(s, idx + 1))
      [] At(s, idx) = "{" -> ObjectStart(s, SkipWs(s, idx + 1))
      [] At(s, idx) = "[" -> ArrayStart(s, SkipWs(s, idx + 1))
      [] At(s, idx) = "n" /\ Slice(s, idx, idx + 4) = <<"n", "u", "l", "l">> ->
           <<"ok", PyNone, idx + 4>>
      [] At(s, idx) = "t" /\ Slice(s, idx, idx + 4) = <<"t", "r", "u", "e">> ->
           <<"ok", PyBool(TRUE), idx + 4>>
      [] At(s, idx) = "f" /\ Slice(s, idx, idx + 5) = <<"f", "a", "l", "s", "e">> ->
           <<"ok", PyBool(FALSE), idx + 5>>
      [] OTHER -> MatchNumber(s, idx)

\* JSONDecoder.decode after raw_decode: r is what scan_once gave
DecodeEnd(s, r, end) ==
    IF end # Len(s) THEN <<"raise", <<"msg", "Extra data", end>>>>
    ELSE <<"ok", r[2]>>
Decode(s, r) ==
    CASE r[1] = "stop" -> <<"raise", <<"msg", "Expecting value", r[2]>>>>
      [] r[1] = "err" -> <<"raise", <<"msg", r[2], r[3]>>>>
      [] OTHER -> DecodeEnd(s, r, SkipWs(s, r[3]))

\* json.loads(s): <<"ok", value>> or <<"raise", str(JSONDecodeError)>>
JsonLoads(s) == Decode(s, ScanOnce(s, SkipWs(s, 0)))

\* str.find(c) and str.rfind(c): -1 when c does not occur
Find(s, c) ==
    IF \E i \in 1..Len(s) : s[i] = c
    THEN (CHOOSE i \in 1..Len(s) : s[i] = c /\ \A j \in 1..(i - 1) : s[j] # c) - 1
    ELSE -1
RFind(s, c) ==
    IF \E i \in 1..Len(s) : s[i] = c
    THEN (CHOOSE i \in 1..Len(s) : s[i] = c /\ \A j \in (i + 1)..Len(s) : s[j] # c) - 1
    ELSE -1


\* --------------------------------------------------------------- server.py
\* str values built by the program
Msg(m) == <<"msg", m>>
NOT_CONFIGURED == Msg("Google Gemini API is not configured. Please check your API key.")
NO_JSON_LIST == Msg("No valid JSON list found in Gemini response.")
NO_FILE_INFO == Msg("No file information provided.")
NOT_SUPPORTED == Msg("This operation is not supported on the web server.")
DEFAULT_INSTRUCTION == Msg("Organize by file type.")

\* {"error": msg}
ErrorDict(msg) == PyDict(<< <<ErrorChars, msg>> >>)
\* {"success": False, "message": msg}
FailureDict(msg) ==
    PyDict(<< <<<<"s", "u", "c", "c", "e", "s", "s">>, PyBool(FALSE)>>,
              <<<<"m", "e", "s", "s", "a", "g", "e">>, msg>> >>)

\* Module start-up: the value of the global `model`.  api_key is "unset", ""
\* or a key; configureOk tells whether genai.configure and GenerativeModel
\* return without raising.
ConfigureModel(api_key, configureOk) ==
    IF api_key \in {"unset", ""} THEN "None"
    ELSE IF ~configureOk THEN "None"
    ELSE "GenerativeModel"

\* The check of the model left out
NotModel_Never(mdl) == FALSE

\* `if not model`
NotModel(mdl) == mdl = "None"

\* f["path"] / f["name"] on one element of files_info
Subscript(f, key) ==
    IF Tag(f) # "dict" THEN <<"raise", "TypeError">>
    ELSE IF ~DictHas(f, key) THEN <<"raise", "KeyError">>
    ELSE <<"ok", DictGet(f, key, PyNone)>>

\* {"path": f["path"], "name": f["name"]}: the subscripts are evaluated in
\* this order and the first that raises ends the comprehension
SimplifiedEntry(path, name) ==
    IF path[1] = "raise" THEN path
    ELSE IF name[1] = "raise" THEN name
    ELSE <<"ok", PyDict(<< <<PathChars, path[2]>>, <<NameChars, name[2]>> >>)>>

\* [{"path": f["path"], "name": f["name"]} for f in files_info]
RECURSIVE SimplifyItems(_, _)
SimplifyNext(items, acc, entry) ==
    IF entry[1] = "raise" THEN entry
    ELSE SimplifyItems(Tail(items), Append(acc, entry[2]))
SimplifyItems(items, acc) ==
    IF items = <<>> THEN <<"ok", PyList(acc)>>
    ELSE SimplifyNext(items, acc,
             SimplifiedEntry(Subscript(Head(items), PathChars),
                             Subscript(Head(items), NameChars)))

\* Iterating a str yields its characters and iterating a dict its keys, all
\* of them str, which f["path"] rejects; a number or bool is not iterable.
SimplifiedFileList(files_info) ==
    CASE Tag(files_info) = "list" -> SimplifyItems(files_info[2], <<>>)
      [] Tag(files_info) \in {"str", "dict"} /\ Len(files_info[2]) = 0 ->
           <<"ok", PyList(<<>>)>>
      [] OTHER -> <<"raise", "TypeError">>

\* The instruction without the fallback
Instruction_Verbatim(user_prompt) == user_prompt

\* {user_prompt if user_prompt else 'Organize by file type.'}
Instruction(user_prompt) ==
    IF Truthy(user_prompt) THEN user_prompt ELSE DEFAULT_INSTRUCTION

\* The f-string: its fixed text, json.dumps(simplified_file_list) and the
\* instruction.
RenderPrompt(simplified_file_list, user_prompt) ==
    <<"prompt", simplified_file_list, Instruction(user_prompt)>>

NoPrompt == <<"none">>
NoJsonStr == <<"none">>
NoOutcome == <<"none">>

\* A generation call that is made again when it raises
Generate_Retry(prompt, outcome) ==
    [calls |-> IF outcome[1] = "raise" THEN 2 ELSE 1, outcome |-> outcome]

\* model.generate_content(prompt) followed by response.text.  outcome is
\* <<"raise", msg>> or <<"text", chars>>; calls counts the invocations.
Generate(prompt, outcome) == [calls |-> 1, outcome |-> outcome]

\* The slice up to the nearest `]` after the first `[`
JsonStr_NearestClose(response_text, start_index, end_index) ==
    IF \E k \in start_index..end_index : At(response_text, k) = "]"
    THEN Slice(response_text, start_index,
               1 + CHOOSE k \in start_index..end_index :
                       /\ At(response_text, k) = "]"
                       /\ \A m \in start_index..(k - 1) : At(response_text, m) # "]")
    ELSE Slice(response_text, start_index, end_index + 1)
\* The slice between the brackets, without them
JsonStr_Inner(response_text, start_index, end_index) ==
    Slice(response_text, start_index + 1, end_index)

\* response_text[start_index:end_index+1]
JsonStr(response_text, start_index, end_index) ==
    Slice(response_text, start_index, end_index + 1)

\* `if start_index != -1 and end_index != -1`
BracketsFound(start_index, end_index) ==
    start_index # -1 /\ end_index # -1

\* json.loads(json_str) and the except clause around it
LoadPlan(json_str, parsed) ==
    [ret |-> IF parsed[1] = "ok" THEN parsed[2] ELSE ErrorDict(parsed[2]),
     json_str |-> <<"json_str", json_str>>]
ParsePlan(json_str) == LoadPlan(json_str, JsonLoads(json_str))

\* The branch on the two indices
SlicePlan(response_text, start_index, end_index) ==
    IF BracketsFound(start_index, end_index)
    THEN ParsePlan(JsonStr(response_text, start_index, end_index))
    ELSE [ret |-> ErrorDict(NO_JSON_LIST), json_str |-> NoJsonStr]

\* The try block after the generation call returned response_text: the
\* value returned by get_ai_structure and the string handed to json.loads.
ExtractPlan(response_text) ==
    SlicePlan(response_text, Find(response_text, "["), RFind(response_text, "]"))

\* get_ai_structure from `response = model.generate_content(prompt)` on
AfterGenerate(prompt, gen, x) ==
    IF gen.outcome[1] = "raise"
    THEN [result |-> <<"return", ErrorDict(gen.outcome[2])>>,
          calls |-> gen.calls, prompt |-> prompt, json_str |-> NoJsonStr]
    ELSE [result |-> <<"return", x.ret>>, calls |-> gen.calls,
          prompt |-> prompt, json_str |-> x.json_str]
GenerateAndExtract(prompt, gen) ==
    AfterGenerate(prompt, gen,
        IF gen.outcome[1] = "raise" THEN [ret |-> PyNone, json_str |-> NoJsonStr]
        ELSE ExtractPlan(gen.outcome[2]))
SendPrompt(prompt, outcome) == GenerateAndExtract(prompt, Generate(prompt, outcome))

\* get_ai_structure from the list comprehension on
BuildAndSend(simp, user_prompt, outcome) ==
    IF simp[1] = "raise"
    THEN [result |-> simp, calls |-> 0, prompt |-> NoPrompt,
          json_str |-> NoJsonStr]
    ELSE SendPrompt(RenderPrompt(simp[2], user_prompt), outcome)

\* get_ai_structure(files_info, user_prompt) with the global model = mdl
GetAiStructure(files_info, user_prompt, mdl, outcome) ==
    IF NotModel(mdl)
    THEN [result |-> <<"return", ErrorDict(NOT_CONFIGURED)>>, calls |-> 0,
          prompt |-> NoPrompt, json_str |-> NoJsonStr]
    ELSE BuildAndSend(SimplifiedFileList(files_info), user_prompt, outcome)

\* execute_move_plan(base_folder, move_plan)
ExecuteMovePlan(base_folder, move_plan) ==
    PyDict(<< <<<<"s", "u", "c", "c", "e", "s", "s">>, PyBool(FALSE)>>,
              <<<<"m", "e", "s", "s", "a", "g", "e">>,
                Msg("File moving is a desktop-only feature and is disabled on the web server.")>> >>)

\* `"error" in v`
ErrorIn(v) ==
    CASE Tag(v) = "dict" -> <<"ok", DictHas(v, ErrorChars)>>
      [] Tag(v) = "list" ->
           <<"ok", \E i \in 1..Len(v[2]) : v[2][i] = PyStr(ErrorChars)>>
      [] Tag(v) = "str" -> <<"ok", IsSubstring(ErrorChars, v[2])>>
      [] OTHER -> <<"raise", "TypeError">>

\* Responses.  kind "json" is a jsonify body; kind "html" is the page Flask
\* itself renders for an HTTPException or for an exception that left the
\* view function.
Json(status, body) == [status |-> status, kind |-> "json", body |-> body]
Html(status, what) == [status |-> status, kind |-> "html", body |-> <<"html", what>>]

\* A test for a missing field only, which lets an empty list through
NoFilesInfo_MissingOnly(files_info) == files_info = PyNone

\* `if not files_info_from_client`
NoFilesInfo(files_info) == ~Truthy(files_info)

\* `if "error" in proposed_structure` and the two returns after it
RespondStructure(proposed_structure, test) ==
    IF test[1] = "raise" THEN Html(500, test[2])
    ELSE IF test[2] THEN Json(500, proposed_structure)
    ELSE Json(200, proposed_structure)

\* get_structure_route after get_ai_structure returned or raised r
AfterGetAiStructure(r) ==
    [response |-> IF r.result[1] = "raise" THEN Html(500, r.result[2])
                  ELSE RespondStructure(r.result[2], ErrorIn(r.result[2])),
     calls |-> r.calls, prompt |-> r.prompt, json_str |-> r.json_str]

\* get_structure_route after the two data.get calls
CheckAndPropose(files_info_from_client, user_prompt, mdl, outcome) ==
    IF NoFilesInfo(files_info_from_client)
    THEN [response |-> Json(400, ErrorDict(NO_FILE_INFO)), calls |-> 0,
          prompt |-> NoPrompt, json_str |-> NoJsonStr]
    ELSE AfterGetAiStructure(
             GetAiStructure(files_info_from_client, user_prompt, mdl, outcome))

\* get_structure_route for a body that request.json decoded to `data`
GetStructureView(data, mdl, outcome) ==
    IF Tag(data) # "dict"
    THEN [response |-> Html(500, "AttributeError"), calls |-> 0,
          prompt |-> NoPrompt, json_str |-> NoJsonStr]
    ELSE CheckAndPropose(
             DictGet(data, <<"f", "i", "l", "e", "s", "_", "i", "n", "f", "o">>, PyNone),
             DictGet(data, <<"p", "r", "o", "m", "p", "t">>, PyStr(<<>>)),
             mdl, outcome)

\* index()
IndexView == Html(200, "<h1>AI File Organizer API</h1>")
\* An execute-moves route that reports success
ExecuteMovesView_Success == Json(200, FailureDict(NOT_SUPPORTED))
\* execute_moves_route()
ExecuteMovesView == Json(403, FailureDict(NOT_SUPPORTED))
\* rollback_route()
RollbackView == Json(403, FailureDict(NOT_SUPPORTED))


\* ------------------------------------------------------------------ inputs
\* Replies of the generation call that are checked beside the bounded ones.
\* noise [1] more [2,3] end
TEXT_P2 ==
    <<"n", "o", "i", "s", "e", " ", "[", "1", "]", " ", "m", "o", "r", "e",
      " ", "[", "2", ",", "3", "]", " ", "e", "n", "d">>
\* plain text, no array here
TEXT_P3 ==
    <<"p", "l", "a", "i", "n", " ", "t", "e", "x", "t", ",", " ", "n", "o",
      " ", "a", "r", "r", "a", "y", " ", "h", "e", "r", "e">>
\* Here is the plan:\n[{"source":"a","destination":"Docs/a"}]\nThanks
TEXT_P4 ==
    <<"H", "e", "r", "e", " ", "i", "s", " ", "t", "h", "e", " ", "p", "l",
      "a", "n", ":", "\n", "[", "{", "\"", "s", "o", "u", "r", "c", "e",
      "\"", ":", "\"", "a", "\"", ",", "\"", "d", "e", "s", "t", "i", "n",
      "a", "t", "i", "o", "n", "\"", ":", "\"", "D", "o", "c", "s", "/",
      "a", "\"", "}", "]", "\n", "T", "h", "a", "n", "k", "s">>
\* ] [
TEXT_REVERSED ==
    <<"]", " ", "[">>
\* ["error"]
TEXT_ERROR_ELEMENT ==
    <<"[", "\"", "e", "r", "r", "o", "r", "\"", "]">>
\* [1, "a", {"x": null}, [true]]
TEXT_MIXED ==
    <<"[", "1", ",", " ", "\"", "a", "\"", ",", " ", "{", "\"", "x", "\"",
      ":", " ", "n", "u", "l", "l", "}", ",", " ", "[", "t", "r", "u", "e",
      "]", "]">>
\* [{"error": 1}]
TEXT_ERROR_KEY ==
    <<"[", "{", "\"", "e", "r", "r", "o", "r", "\"", ":", " ", "1", "}", "]">>

ExampleTexts ==
    {TEXT_P2, TEXT_P3, TEXT_P4, TEXT_REVERSED, TEXT_ERROR_ELEMENT,
     TEXT_MIXED, TEXT_ERROR_KEY}

Alphabet == {"[", "]", ",", "1", "\""}
BoundedTexts == UNION {[1..n -> Alphabet] : n \in 0..MaxLen}
Texts == BoundedTexts \cup ExampleTexts

\* What the generation call does: it raises, or response.text is a text.
Outcomes ==
    {<<"raise", Msg("429 Resource has been exhausted")>>,
     <<"raise", Msg("response.text: the candidate has no parts")>>}
    \cup {<<"text", t>> : t \in Texts}
UnitOutcomes ==
    {<<"raise", Msg("429 Resource has been exhausted")>>}
    \cup {<<"text", t>> : t \in ExampleTexts}

FilesInfoKey == <<"f", "i", "l", "e", "s", "_", "i", "n", "f", "o">>
PromptKey == <<"p", "r", "o", "m", "p", "t">>
SizeKey == <<"s", "i", "z", "e", "_", "b", "y", "t", "e", "s">>

FilePath == PyStr(<<"/", "d", "/", "a", ".", "j", "p", "g">>)
FileName == PyStr(<<"a", ".", "j", "p", "g">>)
FD_FULL == PyDict(<< <<PathChars, FilePath>>, <<NameChars, FileName>>, <<SizeKey, PyNum(3)>> >>)
FD_MIN == PyDict(<< <<PathChars, FilePath>>, <<NameChars, FileName>> >>)
FD_NO_PATH == PyDict(<< <<NameChars, FileName>> >>)
FD_NO_NAME == PyDict(<< <<PathChars, FilePath>> >>)

\* Values of the files_info field; <<"absent">> is a body without the key.
Absent == <<"absent">>
GoodFilesInfos == {PyList(<<FD_MIN>>), PyList(<<FD_FULL, FD_MIN>>)}
BadFilesInfos ==
    {PyList(<<FD_NO_PATH>>), PyList(<<FD_MIN, FD_NO_NAME>>),
     PyList(<<FileName>>), PyList(<<PyNum(1)>>), FileName, PyNum(5),
     PyBool(TRUE), FD_MIN}
EmptyFilesInfos ==
    {Absent, PyNone, PyList(<<>>), PyStr(<<>>), PyNum(0), PyBool(FALSE),
     PyDict(<<>>)}
FilesInfos == GoodFilesInfos \cup BadFilesInfos \cup EmptyFilesInfos

UserPrompt == PyStr(<<"b", "y", " ", "d", "a", "t", "e">>)
Prompts == {Absent, PyNone, PyStr(<<>>), UserPrompt}

\* The JSON object {"files_info": fi, "prompt": pr} with absent keys left out
Body(fi, pr) ==
    PyDict((IF fi = Absent THEN <<>> ELSE << <<FilesInfoKey, fi>> >>)
           \o (IF pr = Absent THEN <<>> ELSE << <<PromptKey, pr>> >>))

\* Request bodies: JSON objects, JSON values that are no object, and a body
\* that request.json cannot decode.
NotJson == <<"notjson">>
ObjectBodies == {Body(fi, pr) : fi \in FilesInfos, pr \in Prompts}
NonObjectBodies == {PyList(<<FD_MIN>>), PyList(<<>>), PyNone, FileName, PyNum(1)}
Bodies == ObjectBodies \cup NonObjectBodies \cup {NotJson}

\* Bodies sent to the routes that never read the body
StubBodies ==
    {Body(PyList(<<FD_MIN>>), UserPrompt), Body(Absent, Absent),
     Body(PyList(<<FD_NO_PATH>>), PyNone), PyList(<<>>), PyNone, NotJson}

GET_INDEX == "GET /"
POST_GET_STRUCTURE == "POST /api/get-structure"
POST_EXECUTE_MOVES == "POST /api/execute-moves"
POST_ROLLBACK == "POST /api/rollback"
CALL_GET_AI_STRUCTURE == "get_ai_structure"
Routes == {GET_INDEX, POST_GET_STRUCTURE, POST_EXECUTE_MOVES, POST_ROLLBACK}
BodiesOf(route) ==
    CASE route = GET_INDEX -> {NotJson}
      [] route = POST_GET_STRUCTURE -> Bodies
      [] OTHER -> StubBodies

\* ------------------------------------------------------------------- state
VARIABLES
    api_key,        \* os.getenv("GOOGLE_API_KEY"): "unset", "" or a key
    configure_ok,   \* genai.configure / GenerativeModel do not raise
    model,          \* the global model: "GenerativeModel" or "None"
    request,        \* <<route, body>> of the request being or last served
    response,       \* its response; kind "pending" while it is in flight
    genCalls,       \* generation calls made for this request
    genOutcome,     \* what the generation call did, when it was made
    sentPrompt,     \* the prompt rendered for this request
    jsonStr         \* the string handed to json.loads for this request

vars == <<api_key, configure_ok, model, request, response, genCalls,
          genOutcome, sentPrompt, jsonStr>>

NoRequest == <<"none", <<"none">>>>
Idle == [status |-> 0, kind |-> "idle", body |-> <<"none">>]
Pending == [status |-> 0, kind |-> "pending", body |-> <<"none">>]

Init ==
    /\ api_key \in {"unset", "", "key"}
    /\ configure_ok \in BOOLEAN
    /\ model = ConfigureModel(api_key, configure_ok)
    /\ request = NoRequest
    /\ response = Idle
    /\ genCalls = 0
    /\ genOutcome = NoOutcome
    /\ sentPrompt = NoPrompt
    /\ jsonStr = NoJsonStr

\* A request reaches the worker; requests are served one at a time.
Receive ==
    /\ response.kind # "pending"
    /\ \E route \in Routes :
         \E body \in BodiesOf(route) : request' = <<route, body>>
    /\ response' = Pending
    /\ genCalls' = 0
    /\ genOutcome' = NoOutcome
    /\ sentPrompt' = NoPrompt
    /\ jsonStr' = NoJsonStr
    /\ UNCHANGED <<api_key, configure_ok, model>>

Serving(route) == response.kind = "pending" /\ request[1] = route

Index ==
    /\ Serving(GET_INDEX)
    /\ response' = IndexView
    /\ UNCHANGED <<api_key, configure_ok, model, request, genCalls,
                   genOutcome, sentPrompt, jsonStr>>

\* request.json raises for a body that is no JSON (400 or 415), or, in a
\* Flask that returns None for it, data.get raises (500).
GetStructureUndecodable ==
    /\ Serving(POST_GET_STRUCTURE)
    /\ request[2] = NotJson
    /\ \E status \in {400, 415, 500} : response' = Html(status, "request.json")
    /\ UNCHANGED <<api_key, configure_ok, model, request, genCalls,
                   genOutcome, sentPrompt, jsonStr>>

\* What a run of the view leaves to be observed
Record(v, outcome) ==
    /\ response' = v.response
    /\ genCalls' = v.calls
    /\ genOutcome' = IF v.calls > 0 THEN outcome ELSE NoOutcome
    /\ sentPrompt' = v.prompt
    /\ jsonStr' = v.json_str

GetStructure ==
    /\ Serving(POST_GET_STRUCTURE)
    /\ request[2] # NotJson
    /\ \E outcome \in Outcomes :
         Record(GetStructureView(request[2], model, outcome), outcome)
    /\ UNCHANGED <<api_key, configure_ok, model, request>>

ExecuteMoves ==
    /\ Serving(POST_EXECUTE_MOVES)
    /\ response' = ExecuteMovesView
    /\ UNCHANGED <<api_key, configure_ok, model, request, genCalls,
                   genOutcome, sentPrompt, jsonStr>>

Rollback ==
    /\ Serving(POST_ROLLBACK)
    /\ response' = RollbackView
    /\ UNCHANGED <<api_key, configure_ok, model, request, genCalls,
                   genOutcome, sentPrompt, jsonStr>>

Next ==
    \/ Receive
    \/ Index
    \/ GetStructureUndecodable
    \/ GetStructure
    \/ ExecuteMoves
    \/ Rollback

Spec == Init /\ [][Next]_vars

\* get_ai_structure applied directly to its arguments, the empty file list
\* included, as a caller other than the route would.
UnitFilesInfos == GoodFilesInfos \cup {PyList(<<>>), PyList(<<FD_NO_PATH>>)}
UnitPrompts == {PyNone, PyStr(<<>>), UserPrompt}

\* The value get_ai_structure returned (kind "return") or the exception it
\* raised (kind "raise")
Returned(r) ==
    [response |-> [status |-> 0, kind |-> r.result[1], body |-> r.result[2]],
     calls |-> r.calls, prompt |-> r.prompt, json_str |-> r.json_str]

\* A caller picks the arguments of get_ai_structure
Invoke ==
    /\ response.kind # "pending"
    /\ \E files_info \in UnitFilesInfos, user_prompt \in UnitPrompts :
         request' = <<CALL_GET_AI_STRUCTURE, <<files_info, user_prompt>>>>
    /\ response' = Pending
    /\ genCalls' = 0
    /\ genOutcome' = NoOutcome
    /\ sentPrompt' = NoPrompt
    /\ jsonStr' = NoJsonStr
    /\ UNCHANGED <<api_key, configure_ok, model>>

CallGetAiStructure ==
    /\ Serving(CALL_GET_AI_STRUCTURE)
    /\ \E outcome \in UnitOutcomes :
         Record(Returned(GetAiStructure(request[2][1], request[2][2], model, outcome)),
                outcome)
    /\ UNCHANGED <<api_key, configure_ok, model, request>>

NextFn ==
    \/ Next
    \/ Invoke
    \/ CallGetAiStructure

SpecFn == Init /\ [][NextFn]_vars


\* ------------------------------------------------------------- properties
Responded(route) ==
    request[1] = route /\ response.kind \notin {"idle", "pending"}

\* {error: string}
IsErrorResult(b) ==
    /\ Tag(b) = "dict"
    /\ Len(b[2]) = 1
    /\ b[2][1][1] = ErrorChars
    /\ Tag(b[2][1][2]) = "msg"

Non2xx(status) == status \notin 200..299

\* The request body of the request in `request`, when it is a JSON object
ObjectBody == Tag(request[2]) = "dict"
FilesInfoField == DictGet(request[2], FilesInfoKey, Absent)
PromptField == DictGet(request[2], PromptKey, Absent)

\* Positions (1-based) of the brackets of a text
Opens(t) == {i \in 1..Len(t) : t[i] = "["}
Closes(t) == {i \in 1..Len(t) : t[i] = "]"}
MinOf(S) == CHOOSE i \in S : \A j \in S : i <= j
MaxOf(S) == CHOOSE i \in S : \A j \in S : i >= j
\* The first `[` is strictly before the last `]`
Bracketed(t) ==
    Opens(t) # {} /\ Closes(t) # {} /\ MinOf(Opens(t)) < MaxOf(Closes(t))
\* The text from the first `[` through the last `]`
GreedySpan(t) == SubSeq(t, MinOf(Opens(t)), MaxOf(Closes(t)))

GeneratedText == genOutcome[1] = "text"

\* C1: every response of POST /api/get-structure is the plan array with
\* status 200 or a JSON object {error: string} with a non-2xx status,
\* whatever the body, the credential and the generation call are.
C1_EveryFailureIsCaught ==
    Responded(POST_GET_STRUCTURE) =>
        /\ response.kind = "json"
        /\ \/ response.status = 200 /\ Tag(response.body) = "list"
           \/ Non2xx(response.status) /\ IsErrorResult(response.body)

\* C2: when the generated text has no `[`, no `]`, or its first `[` is not
\* strictly before its last `]`, extraction fails with the fixed extraction
\* message and no slice of the text is handed to the JSON parser.  (The spec
\* words the message without the provider's name; NO_JSON_LIST is the
\* program's text for it.)
C2_UnbracketedTextIsNeverParsed ==
    (Responded(POST_GET_STRUCTURE) /\ GeneratedText /\ ~Bracketed(genOutcome[2])) =>
        /\ jsonStr = NoJsonStr
        /\ response = Json(500, ErrorDict(NO_JSON_LIST))

\* C3: when the span of the generated text from its first `[` through its
\* last `]` parses as JSON, the response has status 200 and its body is the
\* parsed value, whatever the elements of that value are.
C3_ParsedValueIsReturnedWith200 ==
    (/\ Responded(POST_GET_STRUCTURE)
     /\ GeneratedText
     /\ Bracketed(genOutcome[2])
     /\ JsonLoads(GreedySpan(genOutcome[2]))[1] = "ok") =>
        response = Json(200, JsonLoads(GreedySpan(genOutcome[2]))[2])

\* files_info is missing (no key, or null) or empty
MissingOrEmptyFilesInfo ==
    /\ ObjectBody
    /\ FilesInfoField \in {Absent, PyNone, PyList(<<>>), PyStr(<<>>), PyDict(<<>>)}

\* C4: a get-structure request whose files_info is missing or empty gets
\* status 400 with {error: "No file information provided."}, and neither the
\* prompt is built nor the generation call made, with or without a
\* credential and whatever the prompt field holds.
C4_MissingFilesInfoIs400 ==
    (Responded(POST_GET_STRUCTURE) /\ MissingOrEmptyFilesInfo) =>
        /\ response = Json(400, ErrorDict(NO_FILE_INFO))
        /\ genCalls = 0
        /\ genOutcome = NoOutcome
        /\ sentPrompt = NoPrompt
        /\ jsonStr = NoJsonStr
C4_Witness ==
    /\ request = <<POST_GET_STRUCTURE, Body(PyList(<<>>), UserPrompt)>>
    /\ model = "GenerativeModel"
    /\ response.status = 400

\* The credential is absent or the construction of the client failed
StartupFailed == api_key \in {"unset", ""} \/ ~configure_ok
NonEmptyFilesInfo ==
    /\ ObjectBody
    /\ FilesInfoField \in GoodFilesInfos \cup BadFilesInfos
Handle == Index \/ GetStructureUndecodable \/ GetStructure \/ ExecuteMoves \/ Rollback

\* C5: after a start-up without credential or with a failed construction,
\* in every state: the model stays None, no generation call is ever made,
\* every get-structure request with a non-empty files_info is answered 500
\* with the configuration error, a request in flight can always be answered
\* and a new one can always be received.
C5_DisabledStateHolds ==
    StartupFailed =>
        /\ model = "None"
        /\ genCalls = 0
        /\ genOutcome = NoOutcome
        /\ (Responded(POST_GET_STRUCTURE) /\ NonEmptyFilesInfo) =>
               response = Json(500, ErrorDict(NOT_CONFIGURED))
        /\ IF response.kind = "pending" THEN ENABLED Handle ELSE ENABLED Receive
C5_Witness ==
    /\ api_key = "unset"
    /\ request = <<POST_GET_STRUCTURE, Body(PyList(<<FD_MIN>>), PyStr(<<>>))>>
    /\ response.status = 500

\* [1] more [2,3]
SPAN_P2 ==
    <<"[", "1", "]", " ", "m", "o", "r", "e", " ", "[", "2", ",", "3", "]">>

\* C6: for a generated text whose first `[` is before its last `]`, the
\* string handed to the parser is the span from the first `[` through the
\* last `]` inclusive, and the result is what the parser makes of that span;
\* for "noise [1] more [2,3] end" the span is "[1] more [2,3]" and the
\* response is the ErrorResult with the parser's "Extra data" message.
C6_ExtractionIsGreedy ==
    (Responded(POST_GET_STRUCTURE) /\ GeneratedText) =>
        /\ Bracketed(genOutcome[2]) =>
              /\ jsonStr = <<"json_str", GreedySpan(genOutcome[2])>>
              /\ JsonLoads(GreedySpan(genOutcome[2]))[1] = "raise" =>
                    response = Json(500, ErrorDict(JsonLoads(GreedySpan(genOutcome[2]))[2]))
        /\ genOutcome[2] = TEXT_P2 =>
              /\ jsonStr = <<"json_str", SPAN_P2>>
              /\ response = Json(500, ErrorDict(<<"msg", "Extra data", 4>>))
C6_Witness ==
    /\ Responded(POST_GET_STRUCTURE)
    /\ genOutcome = <<"text", TEXT_P2>>
    /\ response.status = 500

\* C7: a get-structure request makes at most one generation call; when the
\* call raises, no second call is made and the response is 500 with
\* {error: the raised message}; when extraction gives an ErrorResult, it is
\* returned with status 500.
C7_OneGenerationCallNoRetry ==
    Responded(POST_GET_STRUCTURE) =>
        /\ genCalls <= 1
        /\ genOutcome[1] = "raise" =>
              /\ genCalls = 1
              /\ response = Json(500, ErrorDict(genOutcome[2]))
        /\ (GeneratedText /\ Tag(ExtractPlan(genOutcome[2]).ret) = "dict") =>
              /\ genCalls = 1
              /\ IsErrorResult(response.body)
              /\ response = Json(500, ExtractPlan(genOutcome[2]).ret)
C7_Witness ==
    /\ Responded(POST_GET_STRUCTURE)
    /\ genOutcome[1] = "raise"
    /\ genCalls = 1
    /\ response.status = 500

\* C8: execute-moves and rollback answer every request, in every state of
\* the service and for every body, with the same fixed "not supported" body
\* and status 403, and make no generation call.
C8_StubRoutesAlwaysRefuse ==
    (Responded(POST_EXECUTE_MOVES) \/ Responded(POST_ROLLBACK)) =>
        /\ response = Json(403, FailureDict(NOT_SUPPORTED))
        /\ Non2xx(response.status)
        /\ genCalls = 0
        /\ genOutcome = NoOutcome
        /\ sentPrompt = NoPrompt
        /\ jsonStr = NoJsonStr
C8_Witness ==
    /\ request = <<POST_EXECUTE_MOVES, Body(PyList(<<FD_MIN>>), UserPrompt)>>
    /\ model = "GenerativeModel"
    /\ response.status = 403

\* The user prompt of the request or call in `request`
UserPromptGiven ==
    IF request[1] = CALL_GET_AI_STRUCTURE THEN request[2][2] ELSE PromptField
\* It is empty: "", null, or absent from the request
EmptyUserPrompt == UserPromptGiven \in {Absent, PyNone, PyStr(<<>>)}

\* C9: the prompt rendered for the generation call carries the fallback
\* instruction "Organize by file type." when the user prompt is empty or
\* absent and the user's prompt verbatim otherwise, for every file list, the
\* empty one included; no generation call is made without a rendered prompt.
C9_FallbackInstruction ==
    /\ sentPrompt # NoPrompt =>
          sentPrompt[3] = IF EmptyUserPrompt
                          THEN <<"msg", "Organize by file type.">>
                          ELSE UserPromptGiven
    /\ genCalls > 0 => sentPrompt # NoPrompt
C9_Witness ==
    /\ request = <<CALL_GET_AI_STRUCTURE, <<PyList(<<>>), PyStr(<<>>)>>>>
    /\ sentPrompt = <<"prompt", PyList(<<>>), <<"msg", "Organize by file type.">>>>

\* C10: what get_ai_structure returns after the generation call is a list
\* when extraction succeeded and an {error: ...} object otherwise; so the
\* handler's `"error" in` test never raises, every 200 body of get-structure
\* is a list and every object it returns is an ErrorResult with status 500.
C10_SuccessIsAlwaysAnArray ==
    /\ (request[1] = CALL_GET_AI_STRUCTURE /\ response.kind = "return") =>
          /\ Tag(response.body) = "list" \/ IsErrorResult(response.body)
          /\ Tag(response.body) = "list" <=>
                (jsonStr # NoJsonStr /\ JsonLoads(jsonStr[2])[1] = "ok")
    /\ (Responded(POST_GET_STRUCTURE) /\ genCalls > 0) =>
          /\ response.kind = "json"
          /\ Tag(response.body) \in {"list", "dict"}
          /\ response.status = 200 => Tag(response.body) = "list"
          /\ Tag(response.body) = "dict" =>
                IsErrorResult(response.body) /\ response.status = 500
C10_Witness ==
    /\ Responded(POST_GET_STRUCTURE)
    /\ genOutcome = <<"text", TEXT_P4>>
    /\ response.status = 200
    /\ Tag(response.body) = "list"
    /\ Len(response.body[2]) = 1

=============================================================================
